---- MODULE Spec2Model ----
(***************************************************************************)
(* Model of cellranger/io.py: the HDF5 string codec                        *)
(* (create_hdf5_string_dataset / read_hdf5_string_dataset), the JSON       *)
(* shallow merger (merge_jsons_single_level) and the directory helpers     *)
(* (mkdir, makedirs, copy, copytree).                                      *)
(*                                                                         *)
(* Text is a sequence of code points (naturals); a stored byte string is a *)
(* sequence of bytes (naturals below 256).                                 *)
(***************************************************************************)
EXTENDS Integers, Sequences, FiniteSets, TLC

VARIABLES
    data,        \* codec: the `data` argument of create_hdf5_string_dataset
    group,       \* codec: the h5py group, dataset name -> dataset
    groupBefore, \* codec: the group as it was when the last call started
    dsname,      \* codec: the `name` argument of the last call
    cpc,         \* codec: "start" | "created" | "failed" | "read"
    cerr,        \* codec: the exception the last call raised, or "none"
    decoded,     \* codec: the list read_hdf5_string_dataset returned
    filenames,   \* merger: the contents of the files named by `filenames`
    mpc,         \* merger: "start" | "done"
    mres,        \* merger: what merge_jsons_single_level returned or raised
    fs,          \* files: the filesystem, path -> "none" | "file" | "dir"
    fsBefore,    \* files: the filesystem as it was when the last call started
    last         \* files: the last call, its arguments and the error it raised

codecVars == <<data, group, groupBefore, dsname, cpc, cerr, decoded>>
mergeVars == <<filenames, mpc, mres>>
fsVars == <<fs, fsBefore, last>>
vars == <<codecVars, mergeVars, fsVars>>

(***************************************************************************)
(* Bounds                                                                  *)
(***************************************************************************)
\* most elements in a data list
MaxItems == 2
\* most characters in a data list, all elements together
MaxChars == 3
\* longest text of the single-element lists of SpecEscape
MaxTextLen == 5
\* most files in one call of merge_jsons_single_level
MaxFiles == 2

\* the characters NUL & # 6 ; and U+029A (code point 666, outside 7-bit ASCII)
Alphabet == {0, 38, 35, 54, 59, 666}
\* the characters of SpecEscape: those of a numeric character reference
EscAlphabet == {38, 35, 54, 59, 666}
Names == {"old", "new"}

(***************************************************************************)
(* Sequences                                                               *)
(***************************************************************************)
RECURSIVE Concat(_)
Concat(ss) == IF ss = <<>> THEN <<>> ELSE Head(ss) \o Concat(Tail(ss))

Map(f(_), s) == [i \in 1..Len(s) |-> f(s[i])]

RECURSIVE SeqMax(_)
SeqMax(s) == IF s = <<>> THEN 0
             ELSE LET m == SeqMax(Tail(s)) IN IF Head(s) > m THEN Head(s) ELSE m

TextsOfLen(A, n) == [1..n -> A]
TextsUpTo(A, n) == UNION {TextsOfLen(A, k) : k \in 0..n}

(***************************************************************************)
(* Values                                                                  *)
(***************************************************************************)
\* an element of `data`: None, a text (six.string_types), or anything else
NoneElem == [kind |-> "none", text |-> <<>>]
OtherElem == [kind |-> "other", text |-> <<>>]
TextElem(t) == [kind |-> "text", text |-> t]

\* a dataset of the group; "absent" = no dataset of that name,
\* "null" = created without shape or data (dataset.shape is None)
NoDataset == [shape |-> "absent", width |-> 0, rows |-> <<>>]
NullDataset == [shape |-> "null", width |-> 1, rows |-> <<>>]
ArrayDataset(w, rows) == [shape |-> "array", width |-> w, rows |-> rows]

(***************************************************************************)
(* create_hdf5_string_dataset                                              *)
(***************************************************************************)
\* decimal digits of n, as written by the xmlcharrefreplace error handler
RECURSIVE Decimal(_)
Decimal(n) == IF n < 10 THEN <<48 + n>>
              ELSE Append(Decimal(n \div 10), 48 + (n % 10))

\* one character of x.encode('ascii', 'xmlcharrefreplace')
EncodeChar(c) == IF c < 128 THEN <<c>> ELSE <<38, 35>> \o Decimal(c) \o <<59>>

\* x.encode('ascii', 'xmlcharrefreplace')
XmlCharRefReplace(t) == Concat(Map(EncodeChar, t))

\* lambda x: x.encode('ascii', 'xmlcharrefreplace') if x is not None else ''
EncodeElem(x) == IF x.kind = "none" THEN <<>> ELSE XmlCharRefReplace(x.text)

\* a fixed-width 'S<w>' entry: shorter values are padded with NUL bytes
Pad(b, w) == b \o [i \in 1..(w - Len(b)) |-> 0]

\* group.create_dataset(name, ...): h5py refuses a name already in the group
CreateDataset(g, n, ds) ==
    IF g[n].shape # "absent"
    THEN [err |-> "NameExists", group |-> g]
    ELSE [err |-> "none", group |-> [g EXCEPT ![n] = ds]]

\* fixed_len with the zero-width case left out
FixedLenNoMinimum(maxlen) == maxlen

\* fixed_len: the longest encoded element, and 1 when that is 0
FixedLen(maxlen) == IF maxlen = 0 THEN 1 ELSE maxlen

\* the rows written for a list d.items whose elements are all None or text
EncodedRows(d) ==
    LET enc == Map(EncodeElem, d.items)
        fixed_len == FixedLen(SeqMax(Map(Len, enc)))
    IN ArrayDataset(fixed_len, [i \in 1..Len(enc) |-> Pad(enc[i], fixed_len)])

HasOther(d) == \E i \in 1..Len(d.items) : d.items[i].kind = "other"
TypeError(assertsOn) == IF assertsOn THEN "AssertionError" ELSE "AttributeError"

\* the call with the dataset created before the elements are validated
create_dataset_before_assert(g, n, d, assertsOn) ==
    IF d.isNone \/ Len(d.items) = 0
    THEN CreateDataset(g, n, NullDataset)
    ELSE IF HasOther(d)
    THEN [err |-> TypeError(assertsOn), group |-> CreateDataset(g, n, EncodedRows(d)).group]
    ELSE CreateDataset(g, n, EncodedRows(d))

\* the call with only `data is None` taken as empty: max() of no lengths
\* raises ValueError
create_dataset_none_only(g, n, d, assertsOn) ==
    IF d.isNone
    THEN CreateDataset(g, n, NullDataset)
    ELSE IF HasOther(d)
    THEN [err |-> TypeError(assertsOn), group |-> g]
    ELSE IF Len(d.items) = 0
    THEN [err |-> "ValueError", group |-> g]
    ELSE CreateDataset(g, n, EncodedRows(d))

\* the whole call; assertsOn = FALSE is a run under python -O, where the
\* assert statement is compiled away and a non-text element fails in encode
create_hdf5_string_dataset(g, n, d, assertsOn) ==
    IF d.isNone \/ Len(d.items) = 0
    THEN CreateDataset(g, n, NullDataset)
    ELSE IF HasOther(d)
    THEN [err |-> TypeError(assertsOn), group |-> g]
    ELSE CreateDataset(g, n, EncodedRows(d))

(***************************************************************************)
(* read_hdf5_string_dataset                                                *)
(***************************************************************************)
\* an element of dataset[:]: numpy drops the trailing NUL bytes of an 'S' entry
RECURSIVE StripNul(_)
StripNul(b) == IF b # <<>> /\ b[Len(b)] = 0
               THEN StripNul(SubSeq(b, 1, Len(b) - 1)) ELSE b

\* x.decode('ascii', 'ignore'): bytes outside 7-bit ASCII are dropped
DecodeAsciiIgnore(b) == SelectSeq(b, LAMBDA c : c < 128)

IsDigit(c) == c \in 48..57
IsHex(c) == c \in 48..57 \/ c \in 97..102 \/ c \in 65..70
IsWord(c) == c \in 48..57 \/ c \in 97..122 \/ c \in 65..90 \/ c = 95
IsX(c) == c \in {120, 88}
All(P(_), s) == \A i \in 1..Len(s) : P(s[i])

HexVal(c) == IF c \in 48..57 THEN c - 48
             ELSE IF c \in 97..102 THEN c - 87 ELSE c - 55

RECURSIVE ParseInt(_, _)
ParseInt(s, base) ==
    IF s = <<>> THEN 0
    ELSE ParseInt(SubSeq(s, 1, Len(s) - 1), base) * base + HexVal(s[Len(s)])

\* int(s): -1 stands for ValueError
IntDec(s) == IF s # <<>> /\ All(IsDigit, s) THEN ParseInt(s, 10) ELSE -1

\* int(s, 16), which also accepts a 0x prefix: -1 stands for ValueError
IntHex(s) ==
    LET t == IF Len(s) >= 2 /\ s[1] = 48 /\ IsX(s[2]) THEN SubSeq(s, 3, Len(s)) ELSE s
    IN IF t # <<>> /\ All(IsHex, t) THEN ParseInt(t, 16) ELSE -1

\* HTMLParser.entitydefs (htmlentitydefs.name2codepoint plus apos), in part:
\* amp lt gt quot apos
EntityDefs ==
    {<< <<97, 109, 112>>, 38 >>, << <<108, 116>>, 60 >>, << <<103, 116>>, 62 >>,
     << <<113, 117, 111, 116>>, 34 >>, << <<97, 112, 111, 115>>, 39 >>}

\* the text between '&' and ';' matches  #?[xX]?(?:[0-9a-fA-F]+|\w{1,8})
GroupMatches(t) ==
    \E a \in 0..1, b \in 0..1 :
        /\ a + b < Len(t)
        /\ a = 1 => t[1] = 35
        /\ b = 1 => IsX(t[a + 1])
        /\ LET body == SubSeq(t, a + b + 1, Len(t))
           IN All(IsHex, body) \/ (All(IsWord, body) /\ Len(body) <= 8)

\* replaceEntities of HTMLParser.unescape, on the matched group
replaceEntities(t) ==
    IF t[1] = 35
    THEN LET s == Tail(t)
             c == IF IsX(s[1]) THEN IntHex(Tail(s)) ELSE IntDec(s)
         IN IF c < 0 \/ c > 1114111
            THEN <<38, 35>> \o s \o <<59>>
            ELSE <<c>>
    ELSE IF \E e \in EntityDefs : e[1] = t
    THEN <<(CHOOSE e \in EntityDefs : e[1] = t)[2]>>
    ELSE <<38>> \o t \o <<59>>

\* index of the first ';' of s after position i, 0 if there is none
SemiAfter(s, i) ==
    IF \E j \in (i + 1)..Len(s) : s[j] = 59
    THEN CHOOSE j \in (i + 1)..Len(s) :
             s[j] = 59 /\ \A k \in (i + 1)..(j - 1) : s[k] # 59
    ELSE 0

\* re.sub(r"&(#?[xX]?(?:[0-9a-fA-F]+|\w{1,8}));", replaceEntities, s) from i on
RECURSIVE SubFrom(_, _)
SubFrom(s, i) ==
    IF i > Len(s) THEN <<>>
    ELSE LET j == SemiAfter(s, i)
         IN IF s[i] = 38 /\ j > i + 1 /\ GroupMatches(SubSeq(s, i + 1, j - 1))
            THEN replaceEntities(SubSeq(s, i + 1, j - 1)) \o SubFrom(s, j + 1)
            ELSE <<s[i]>> \o SubFrom(s, i + 1)

\* HTMLParser.unescape
Unescape(s) == IF \A i \in 1..Len(s) : s[i] # 38 THEN s ELSE SubFrom(s, 1)

\* make_utf8: its argument is text here (the result of decode), returned as is
make_utf8(x) == x

DecodeRow(b) == make_utf8(Unescape(DecodeAsciiIgnore(StripNul(b))))

read_hdf5_string_dataset(ds) ==
    IF ds.shape = "null" THEN <<>> ELSE Map(DecodeRow, ds.rows)

(***************************************************************************)
(* Inputs of the codec                                                     *)
(***************************************************************************)
Kinds == {"none", "other", "text"}

RECURSIVE Sum(_)
Sum(ls) == IF ls = <<>> THEN 0 ELSE Head(ls) + Sum(Tail(ls))

\* the list whose i-th element has kind ks[i] and, when a text, the next ls[i]
\* characters of flat
Build(ks, ls, flat) ==
    [i \in 1..Len(ks) |->
        IF ks[i] = "none" THEN NoneElem
        ELSE IF ks[i] = "other" THEN OtherElem
        ELSE LET off == Sum(SubSeq(ls, 1, i - 1))
             IN TextElem(SubSeq(flat, off + 1, off + ls[i]))]

\* data is None, or a list of at most MaxItems elements holding at most
\* MaxChars characters in all
InitData ==
    \/ data = [isNone |-> TRUE, items |-> <<>>]
    \/ \E n \in 0..MaxItems :
         \E ks \in [1..n -> Kinds], ls \in [1..n -> 0..MaxChars] :
            /\ Sum(ls) <= MaxChars
            /\ \A i \in 1..n : ks[i] # "text" => ls[i] = 0
            /\ \E flat \in [1..Sum(ls) -> Alphabet] :
                  data = [isNone |-> FALSE, items |-> Build(ks, ls, flat)]

EscapeInputs ==
    {[isNone |-> FALSE, items |-> <<TextElem(t)>>]
        : t \in TextsUpTo(EscAlphabet, MaxTextLen)}

EmptyGroup == [n \in Names |-> NoDataset]
Groups == {EmptyGroup, [EmptyGroup EXCEPT !["old"] = NullDataset]}

(***************************************************************************)
(* The codec as a state machine                                            *)
(***************************************************************************)
InitCodecRest ==
    /\ groupBefore = group
    /\ dsname = "new"
    /\ cpc = "start"
    /\ cerr = "none"
    /\ decoded = <<>>

InitCodec == InitData /\ group \in Groups /\ InitCodecRest
InitEscape == data \in EscapeInputs /\ group \in Groups /\ InitCodecRest
IdleCodec ==
    data = [isNone |-> TRUE, items |-> <<>>] /\ group = EmptyGroup /\ InitCodecRest

Create ==
    /\ cpc = "start"
    /\ \E n \in Names, assertsOn \in BOOLEAN :
         LET r == create_hdf5_string_dataset(group, n, data, assertsOn)
         IN /\ dsname' = n
            /\ groupBefore' = group
            /\ group' = r.group
            /\ cerr' = r.err
            /\ cpc' = IF r.err = "none" THEN "created" ELSE "failed"
    /\ UNCHANGED <<data, decoded>>
    /\ UNCHANGED <<mergeVars, fsVars>>

Read ==
    /\ cpc = "created"
    /\ decoded' = read_hdf5_string_dataset(group[dsname])
    /\ cpc' = "read"
    /\ UNCHANGED <<data, group, groupBefore, dsname, cerr>>
    /\ UNCHANGED <<mergeVars, fsVars>>

(***************************************************************************)
(* merge_jsons_single_level                                                *)
(***************************************************************************)
TopKeys == {"a", "b"}
NestedKeys == {"x", "y"}

\* a JSON object nested under a top-level key: nested key -> number, 0 = no
\* such key
NoMap == [k \in NestedKeys |-> 0]
Dicts == {d \in [NestedKeys -> 0..2] : d["y"] # 1}

\* a JSON value under a top-level key; "missing" = the key is not there
Missing == [type |-> "missing", val |-> 0, map |-> NoMap]
IntVal(n) == [type |-> "int", val |-> n, map |-> NoMap]
DictVal(d) == [type |-> "dict", val |-> 0, map |-> d]
JsonValues == {IntVal(5), IntVal(6)} \cup {DictVal(d) : d \in Dicts}

\* the object json.load returns for one file
Files == [TopKeys -> JsonValues \cup {Missing}]
EmptyMerged == [k \in TopKeys |-> Missing]

\* the orders d.iteritems() may take
Orders == {o \in [1..Cardinality(TopKeys) -> TopKeys] :
              \A i, j \in DOMAIN o : i # j => o[i] # o[j]}

NoConflict == [key |-> "", type |-> "", value |-> Missing, prior |-> Missing]

\* update that drops what was there
UpdateReplace(old, new) == new

\* merged[key].update(value)
Update(old, new) == [k \in NestedKeys |-> IF new[k] # 0 THEN new[k] ELSE old[k]]

\* the loop body with the last value winning where no strategy applies
MergeKeyLastWins(merged, key, value) ==
    IF merged[key].type = "dict" /\ value.type = "dict"
    THEN [err |-> FALSE,
          merged |-> [merged EXCEPT ![key] = DictVal(Update(merged[key].map, value.map))],
          conflict |-> NoConflict]
    ELSE [err |-> FALSE, merged |-> [merged EXCEPT ![key] = value],
          conflict |-> NoConflict]

\* the body of the loop over d.iteritems(), for one key and value
MergeKey(merged, key, value) ==
    IF merged[key].type = "missing"
    THEN [err |-> FALSE, merged |-> [merged EXCEPT ![key] = value],
          conflict |-> NoConflict]
    ELSE IF merged[key] = value
    THEN [err |-> FALSE, merged |-> merged, conflict |-> NoConflict]
    ELSE IF value.type = "dict" /\ merged[key].type = "dict"
    THEN [err |-> FALSE,
          merged |-> [merged EXCEPT ![key] = DictVal(Update(merged[key].map, value.map))],
          conflict |-> NoConflict]
    ELSE [err |-> TRUE, merged |-> merged,
          conflict |-> [key |-> key, type |-> value.type, value |-> value,
                        prior |-> merged[key]]]

\* the loop over d.iteritems(), taking the keys of d in the order `order`
RECURSIVE MergeItems(_, _, _)
MergeItems(st, d, order) ==
    IF st.err \/ order = <<>> THEN st
    ELSE IF d[Head(order)].type = "missing" THEN MergeItems(st, d, Tail(order))
    ELSE MergeItems(MergeKey(st.merged, Head(order), d[Head(order)]), d, Tail(order))

\* the loop over filenames; orders[i] is the order of the keys of file i
RECURSIVE MergeFiles(_, _, _)
MergeFiles(st, files, orders) ==
    IF st.err \/ files = <<>> THEN st
    ELSE MergeFiles(MergeItems(st, Head(files), Head(orders)), Tail(files), Tail(orders))

\* the whole call: the merged dict, or the ValueError raised
merge_jsons_single_level(files, orders) ==
    LET st == MergeFiles([err |-> FALSE, merged |-> EmptyMerged, conflict |-> NoConflict],
                         files, orders)
    IN IF st.err
       THEN [status |-> "error", merged |-> EmptyMerged, conflict |-> st.conflict]
       ELSE [status |-> "ok", merged |-> st.merged, conflict |-> NoConflict]

NoResult == [status |-> "none", merged |-> EmptyMerged, conflict |-> NoConflict]

InitMergeRest == mpc = "start" /\ mres = NoResult
InitMerge ==
    /\ \E n \in 0..MaxFiles : filenames \in [1..n -> Files]
    /\ InitMergeRest
IdleMerge == filenames = <<>> /\ InitMergeRest

Merge ==
    /\ mpc = "start"
    /\ \E orders \in [1..Len(filenames) -> Orders] :
         mres' = merge_jsons_single_level(filenames, orders)
    /\ mpc' = "done"
    /\ UNCHANGED filenames
    /\ UNCHANGED <<codecVars, fsVars>>

(***************************************************************************)
(* The filesystem under mkdir, makedirs, remove, copy and copytree         *)
(***************************************************************************)
PathNames == {"p", "q"}
\* the paths the calls are given, and the paths they can reach: cp of a file
\* onto a directory writes one level below it
ArgPaths == {<<n>> : n \in PathNames} \cup {<<n, m>> : n, m \in PathNames}
AllPaths == ArgPaths \cup {<<n, m, k>> : n, m, k \in PathNames}
TopPaths == {<<n>> : n \in PathNames}

Parent(p) == SubSeq(p, 1, Len(p) - 1)
Base(p) == p[Len(p)]
\* what is at p; the root is a directory
Kind(f, p) == IF p = <<>> THEN "dir" ELSE f[p]

Ok(f) == [err |-> "none", fs |-> f]
Fail(e, f) == [err |-> e, fs |-> f]

\* os.mkdir
os_mkdir(f, p) ==
    IF Kind(f, Parent(p)) = "none" THEN Fail("ENOENT", f)
    ELSE IF Kind(f, Parent(p)) = "file" THEN Fail("ENOTDIR", f)
    ELSE IF f[p] # "none" THEN Fail("EEXIST", f)
    ELSE Ok([f EXCEPT ![p] = "dir"])

\* os.makedirs: the missing ancestors first, then os.mkdir
RECURSIVE os_makedirs(_, _)
os_makedirs(f, p) ==
    IF Parent(p) # <<>> /\ Kind(f, Parent(p)) = "none"
    THEN LET r == os_makedirs(f, Parent(p))
         IN IF r.err \notin {"none", "EEXIST"} THEN r ELSE os_mkdir(r.fs, p)
    ELSE os_mkdir(f, p)

\* the handler without the os.path.isdir test
AllowExistingAnyKind(r, dst) == IF r.err = "EEXIST" THEN Ok(r.fs) ELSE r

\* try: ... except OSError as e: if e.errno == errno.EEXIST and
\* os.path.isdir(dst): pass, else: raise
AllowExisting(r, dst) ==
    IF r.err = "EEXIST" /\ Kind(r.fs, dst) = "dir" THEN Ok(r.fs) ELSE r

mkdir(f, dst, allow_existing) ==
    IF allow_existing THEN AllowExisting(os_mkdir(f, dst), dst) ELSE os_mkdir(f, dst)

makedirs(f, dst, allow_existing) ==
    IF allow_existing THEN AllowExisting(os_makedirs(f, dst), dst)
    ELSE os_makedirs(f, dst)

\* os.remove
os_remove(f, p) ==
    IF Kind(f, Parent(p)) = "none" THEN Fail("ENOENT", f)
    ELSE IF Kind(f, Parent(p)) = "file" THEN Fail("ENOTDIR", f)
    ELSE IF f[p] = "none" THEN Fail("ENOENT", f)
    ELSE IF f[p] = "dir" THEN Fail("EISDIR", f)
    ELSE Ok([f EXCEPT ![p] = "none"])

remove(f, p, allow_nonexisting) ==
    LET r == os_remove(f, p)
    IN IF allow_nonexisting /\ r.err = "ENOENT" THEN Ok(f) ELSE r

\* write_empty_json: open(filename, 'w') and a dump of {}
write_empty_json(f, p) ==
    IF Kind(f, Parent(p)) = "none" THEN Fail("ENOENT", f)
    ELSE IF Kind(f, Parent(p)) = "file" THEN Fail("ENOTDIR", f)
    ELSE IF f[p] = "dir" THEN Fail("EISDIR", f)
    ELSE Ok([f EXCEPT ![p] = "file"])

\* copy: `cp src dst` of a file; a non-zero exit raises Exception.  cp onto a
\* directory writes dst/<name of src>
copy(f, src, dst) ==
    LET target == IF Kind(f, dst) = "dir" THEN Append(dst, Base(src)) ELSE dst
    IN IF Kind(f, src) # "file" THEN Fail("Exception", f)
       ELSE IF target = src THEN Fail("Exception", f)
       ELSE IF Kind(f, Parent(target)) # "dir" THEN Fail("Exception", f)
       ELSE IF Kind(f, target) = "dir" THEN Fail("Exception", f)
       ELSE Ok([f EXCEPT ![target] = "file"])

\* the orders os.listdir may return the names in
FsOrders == {o \in [1..Cardinality(PathNames) -> PathNames] :
                \A i, j \in DOMAIN o : i # j => o[i] # o[j]}

\* os.listdir(src): the names under src, in the order ords[src] gives
listdir(f, src, ords) == SelectSeq(ords[src], LAMBDA n : f[Append(src, n)] # "none")

\* the recursive call handing allow_existing down
InheritAllowExisting(allow_existing) == allow_existing

\* allow_existing of the recursive call copytree(srcname, dstname): the default
SubdirAllowExisting(allow_existing) == FALSE

RECURSIVE copytree(_, _, _, _, _)
RECURSIVE CopyEntries(_, _, _, _, _, _)

\* the loop over os.listdir(src)
CopyEntries(f, src, dst, names, allow_existing, ords) ==
    IF names = <<>> THEN Ok(f)
    ELSE LET srcname == Append(src, Head(names))
             dstname == Append(dst, Head(names))
             r == IF Kind(f, srcname) = "dir"
                  THEN copytree(f, srcname, dstname,
                                SubdirAllowExisting(allow_existing), ords)
                  ELSE copy(f, srcname, dstname)
         IN IF r.err # "none" THEN r
            ELSE CopyEntries(r.fs, src, dst, Tail(names), allow_existing, ords)

copytree(f, src, dst, allow_existing, ords) ==
    LET r == makedirs(f, dst, allow_existing)
    IN IF r.err # "none" THEN r
       ELSE IF Kind(r.fs, src) = "none" THEN Fail("ENOENT", r.fs)
       ELSE IF Kind(r.fs, src) = "file" THEN Fail("ENOTDIR", r.fs)
       ELSE CopyEntries(r.fs, src, dst, listdir(r.fs, src, ords), allow_existing, ords)

NoCall == [op |-> "none", src |-> <<>>, dst |-> <<>>, flag |-> FALSE,
           order |-> <<>>, err |-> "none"]
Call(op, src, dst, flag, order, r) ==
    [op |-> op, src |-> src, dst |-> dst, flag |-> flag, order |-> order,
     err |-> r.err]

EmptyFs == [p \in AllPaths |-> "none"]
InitFs == fs = EmptyFs /\ fsBefore = EmptyFs /\ last = NoCall

Mkdir ==
    \E dst \in ArgPaths, ae \in BOOLEAN :
        LET r == mkdir(fs, dst, ae)
        IN /\ fsBefore' = fs
           /\ fs' = r.fs
           /\ last' = Call("mkdir", <<>>, dst, ae, <<>>, r)
           /\ UNCHANGED <<codecVars, mergeVars>>

Makedirs ==
    \E dst \in ArgPaths, ae \in BOOLEAN :
        LET r == makedirs(fs, dst, ae)
        IN /\ fsBefore' = fs
           /\ fs' = r.fs
           /\ last' = Call("makedirs", <<>>, dst, ae, <<>>, r)
           /\ UNCHANGED <<codecVars, mergeVars>>

Remove ==
    \E p \in ArgPaths, an \in BOOLEAN :
        LET r == remove(fs, p, an)
        IN /\ fsBefore' = fs
           /\ fs' = r.fs
           /\ last' = Call("remove", <<>>, p, an, <<>>, r)
           /\ UNCHANGED <<codecVars, mergeVars>>

WriteEmptyJson ==
    \E p \in ArgPaths :
        LET r == write_empty_json(fs, p)
        IN /\ fsBefore' = fs
           /\ fs' = r.fs
           /\ last' = Call("write_empty_json", <<>>, p, FALSE, <<>>, r)
           /\ UNCHANGED <<codecVars, mergeVars>>

\* src and dst are top-level directories; every directory of src is listed
\* in an order of its own
Copytree ==
    \E src \in TopPaths, dst \in TopPaths, ae \in BOOLEAN :
        \E ords \in [{src} \cup {Append(src, n) : n \in PathNames} -> FsOrders] :
            LET r == copytree(fs, src, dst, ae, ords)
            IN /\ fsBefore' = fs
               /\ fs' = r.fs
               /\ last' = Call("copytree", src, dst, ae, ords[src], r)
               /\ UNCHANGED <<codecVars, mergeVars>>

(***************************************************************************)
(* Specifications                                                          *)
(***************************************************************************)
Init == InitCodec /\ IdleMerge /\ InitFs
Next == Create \/ Read
Spec == Init /\ [][Next]_vars

InitEscapeSpec == InitEscape /\ IdleMerge /\ InitFs
SpecEscape == InitEscapeSpec /\ [][Next]_vars

InitMergeSpec == IdleCodec /\ InitMerge /\ InitFs
NextMerge == Merge
SpecMerge == InitMergeSpec /\ [][NextMerge]_vars

InitFsSpec == IdleCodec /\ IdleMerge /\ InitFs
NextFs == Mkdir \/ Makedirs \/ Remove \/ WriteEmptyJson \/ Copytree
SpecFs == InitFsSpec /\ [][NextFs]_vars

(***************************************************************************)
(* Properties of the string codec                                          *)
(***************************************************************************)
Items == data.items
Stored == group[dsname]
IsAscii(t) == \A j \in 1..Len(t) : t[j] < 128
AllTexts == \A i \in 1..Len(Items) : Items[i].kind = "text"
\* an element that is None or the empty string
IsBlank(x) == x.kind = "none" \/ (x.kind = "text" /\ x.text = <<>>)

\* C1: a list of texts of 7-bit ASCII characters only, '&', '#' and ';' among
\* them, is read back equal to what was written, element by element.
C1_RoundTripAscii ==
    (cpc = "read" /\ ~data.isNone /\ AllTexts
        /\ \A i \in 1..Len(Items) : IsAscii(Items[i].text))
    => decoded = [i \in 1..Len(Items) |-> Items[i].text]

\* C5: a text with a character of code point N > 127 is stored as 7-bit ASCII
\* bytes with '&#N;' in place of that character, and is read back equal to the
\* original text.
C5_NonAsciiRoundTrip ==
    (cpc = "read" /\ AllTexts)
    => \A i \in 1..Len(Items) :
          ~IsAscii(Items[i].text)
          => /\ IsAscii(Stored.rows[i])
             /\ StripNul(Stored.rows[i]) =
                    Concat([j \in 1..Len(Items[i].text) |->
                              LET c == Items[i].text[j]
                              IN IF c > 127 THEN <<38, 35>> \o Decimal(c) \o <<59>>
                                 ELSE <<c>>])
             /\ decoded[i] = Items[i].text

\* C6: a call whose data list holds an element that is neither None nor text
\* fails with an error and leaves the group as it was before the call.
C6_InvalidElementFails ==
    (cpc # "start" /\ ~data.isNone /\ HasOther(data))
    => /\ cpc = "failed"
       /\ cerr \in {"AssertionError", "AttributeError"}
       /\ group = groupBefore

\* a failed call on a list with a text and a non-text element, in a group that
\* already holds a dataset
C6_Witness ==
    /\ cpc = "failed" /\ dsname = "new" /\ cerr = "AssertionError"
    /\ Len(Items) = 2 /\ Items[1].kind = "text" /\ Items[1].text # <<>>
    /\ Items[2].kind = "other"
    /\ group["old"] = NullDataset /\ group["new"] = NoDataset

\* C7: None and the empty string are both stored as an empty string, in a
\* dataset at least 1 byte wide, and both are read back as the empty text; the
\* list read back is as long as the list written.
C7_BlankElementsCollapse ==
    /\ (cpc \in {"created", "read"} /\ ~data.isNone /\ Items # <<>>)
       => /\ Stored.shape = "array"
          /\ Stored.width >= 1
          /\ Len(Stored.rows) = Len(Items)
          /\ \A i \in 1..Len(Items) :
                /\ Len(Stored.rows[i]) = Stored.width
                /\ IsBlank(Items[i]) => StripNul(Stored.rows[i]) = <<>>
    /\ cpc = "read"
       => /\ Len(decoded) = Len(Items)
          /\ \A i \in 1..Len(Items) : IsBlank(Items[i]) => decoded[i] = <<>>

\* [None, ""] written 1 byte wide and read back as ["", ""]
C7_Witness ==
    /\ cpc = "read"
    /\ Items = <<NoneElem, TextElem(<<>>)>>
    /\ Stored.width = 1
    /\ decoded = << <<>>, <<>> >>

\* C8: data = None and data = [] both create, under a free name, a dataset
\* of 1-byte strings with no elements, which is read back as [].
C8_EmptyInput ==
    (cpc # "start" /\ (data.isNone \/ Items = <<>>)
        /\ groupBefore[dsname].shape = "absent")
    => /\ cpc \in {"created", "read"}
       /\ Stored.shape = "null" /\ Stored.width = 1 /\ Stored.rows = <<>>
       /\ cpc = "read" => decoded = <<>>

\* the dataset of data = [] read back as []
C8_Witness ==
    /\ cpc = "read" /\ ~data.isNone /\ Items = <<>>
    /\ Stored = NullDataset /\ decoded = <<>>

(***************************************************************************)
(* Properties of the JSON merger                                           *)
(***************************************************************************)
\* the files that have the top-level key k, and the values they give it
Holders(k) == {i \in 1..Len(filenames) : filenames[i][k].type # "missing"}
ValuesOf(k) == {filenames[i][k] : i \in Holders(k)}
\* k occurs in more than one file with values neither all equal nor all mappings
Conflicting(k) ==
    /\ Cardinality(Holders(k)) > 1
    /\ Cardinality(ValuesOf(k)) > 1
    /\ \E v \in ValuesOf(k) : v.type # "dict"

FileOrders(n) == {q \in [1..n -> 1..n] : \A i, j \in 1..n : i # j => q[i] # q[j]}

\* C2: when the merge of the files succeeds, the merge of the same files in any
\* other order succeeds too and returns an equal mapping.
C2_OrderIrrelevant ==
    (mpc = "done" /\ mres.status = "ok")
    => \A q \in FileOrders(Len(filenames)) :
          \A orders \in [1..Len(filenames) -> Orders] :
             LET r == merge_jsons_single_level(
                          [i \in 1..Len(filenames) |-> filenames[q[i]]], orders)
             IN r.status = "ok" /\ r.merged = mres.merged

\* C3: when a top-level key occurs in more than one file with values neither
\* all equal nor all mappings, no merged mapping is returned: the merge raises
\* an error that names such a key, the value met, its type and the value
\* stored before it, which differ and are not both mappings.
C3_ConflictRaises ==
    (mpc = "done" /\ \E k \in TopKeys : Conflicting(k))
    => /\ mres.status = "error"
       /\ mres.merged = EmptyMerged
       /\ mres.conflict.key \in TopKeys
       /\ Conflicting(mres.conflict.key)
       /\ mres.conflict.value \in ValuesOf(mres.conflict.key)
       /\ mres.conflict.type = mres.conflict.value.type
       /\ mres.conflict.prior.type # "missing"
       /\ mres.conflict.prior # mres.conflict.value
       /\ ~(mres.conflict.prior.type = "dict" /\ mres.conflict.value.type = "dict")

\* {"a": 5} merged with {"a": 6}
C3_Witness ==
    /\ mpc = "done"
    /\ filenames = <<[EmptyMerged EXCEPT !["a"] = IntVal(5)],
                     [EmptyMerged EXCEPT !["a"] = IntVal(6)]>>
    /\ mres.status = "error"
    /\ mres.conflict = [key |-> "a", type |-> "int", value |-> IntVal(6),
                        prior |-> IntVal(5)]

\* C4: in the mapping returned, a top-level key that only one file has keeps
\* that file's value, and a top-level key whose values are mappings in all the
\* files that have it holds their union: a nested key is there exactly when
\* one of them has it, with the value one of them gives it.
C4_DictUnion ==
    (mpc = "done" /\ mres.status = "ok")
    => \A k \in TopKeys :
          /\ \A i \in Holders(k) :
                Holders(k) = {i} => mres.merged[k] = filenames[i][k]
          /\ Holders(k) = {} => mres.merged[k] = Missing
          /\ (Cardinality(Holders(k)) > 1 /\ \A v \in ValuesOf(k) : v.type = "dict")
             => /\ mres.merged[k].type = "dict"
                /\ \A n \in NestedKeys :
                      IF \A v \in ValuesOf(k) : v.map[n] = 0
                      THEN mres.merged[k].map[n] = 0
                      ELSE /\ mres.merged[k].map[n] # 0
                           /\ \E v \in ValuesOf(k) : v.map[n] = mres.merged[k].map[n]

\* {"a": {"x": 1}, "b": 5} merged with {"a": {"y": 2}}
C4_Witness ==
    /\ mpc = "done"
    /\ filenames =
          <<[a |-> DictVal([x |-> 1, y |-> 0]), b |-> IntVal(5)],
            [a |-> DictVal([x |-> 0, y |-> 2]), b |-> Missing]>>
    /\ mres.status = "ok"
    /\ mres.merged = [a |-> DictVal([x |-> 1, y |-> 2]), b |-> IntVal(5)]

(***************************************************************************)
(* Properties of the directory helpers                                     *)
(***************************************************************************)
\* C9: mkdir and makedirs with allow_existing=True on a path that is already
\* a directory succeed and leave the filesystem as it was; a call that
\* succeeds leaves a directory at the path; a file already at the path is
\* still an 'already exists' error, and so is every other OS error raised.
C9_IdempotentCreate ==
    (last.op \in {"mkdir", "makedirs"} /\ last.flag)
    => /\ fsBefore[last.dst] = "dir" => (last.err = "none" /\ fs = fsBefore)
       /\ last.err = "none" => fs[last.dst] = "dir"
       /\ fsBefore[last.dst] = "file" => last.err = "EEXIST"
       /\ Kind(fsBefore, Parent(last.dst)) = "file" => last.err = "ENOTDIR"
       /\ (last.op = "mkdir" /\ Kind(fsBefore, Parent(last.dst)) = "none")
          => last.err = "ENOENT"
       /\ last.err # "none" => fs = fsBefore

\* the second mkdir(dst, allow_existing=True) of a nested directory
C9_Witness ==
    /\ last.op = "mkdir" /\ last.flag /\ Len(last.dst) = 2
    /\ fsBefore[last.dst] = "dir"
    /\ last.err = "none" /\ fs[last.dst] = "dir"

\* the entries of src that make copytree(src, dst) fail: the subdirectories
\* that dst already has an entry for
Clashes(src, dst) ==
    {n \in PathNames : fsBefore[Append(src, n)] = "dir"
                          /\ fsBefore[Append(dst, n)] # "none"}
\* the names the call listed before name n
ListedBefore(n) ==
    {last.order[i] : i \in {i \in 1..Len(last.order) :
                               \E j \in (i + 1)..Len(last.order) : last.order[j] = n}}

\* C10: copytree(src, dst, allow_existing=True) onto an existing directory dst
\* raises 'already exists' when a subdirectory of src already has an entry
\* under dst, and what it copied before that stays in place; and after a
\* call that succeeded every subdirectory of src is a directory under dst, so
\* that a second call fails.
C10_SubdirNotAllowed ==
    (last.op = "copytree" /\ last.flag /\ last.src # last.dst
        /\ fsBefore[last.src] = "dir")
    => /\ (fsBefore[last.dst] = "dir" /\ Clashes(last.src, last.dst) # {})
          => /\ last.err = "EEXIST"
             /\ \A n \in Clashes(last.src, last.dst) :
                   \A m \in ListedBefore(n) \ Clashes(last.src, last.dst) :
                      /\ fsBefore[Append(last.src, m)] = "dir"
                         => fs[Append(last.dst, m)] = "dir"
                      /\ (fsBefore[Append(last.src, m)] = "file"
                            /\ fsBefore[Append(last.dst, m)] # "dir")
                         => fs[Append(last.dst, m)] = "file"
       /\ last.err = "none"
          => /\ fs[last.dst] = "dir"
             /\ \A n \in PathNames :
                   fs[Append(last.src, n)] = "dir" => fs[Append(last.dst, n)] = "dir"

\* a call that copied a file and then met a subdirectory dst already had
C10_Witness ==
    /\ last.op = "copytree" /\ last.flag /\ last.src # last.dst
    /\ last.err = "EEXIST"
    /\ \E n, m \in PathNames :
          /\ fsBefore[Append(last.src, n)] = "dir"
          /\ fsBefore[Append(last.dst, n)] = "dir"
          /\ fsBefore[Append(last.src, m)] = "file"
          /\ fsBefore[Append(last.dst, m)] = "none"
          /\ fs[Append(last.dst, m)] = "file"

====
